---- MODULE Spec2Model ----
(***************************************************************************)
(* A state-machine model of parts of MiniSat:                              *)
(*   - the command-line / environment option parser (Options.cc),          *)
(*   - the resizable array vec<T,Size> (Vec.h),                            *)
(*   - the MINISAT_ASSERT macro and AssertionFailure (Assert.h/.cc),       *)
(*   - the assignment trail, two-watched-literal propagation and the       *)
(*     search loop of the solver core.                                     *)
(* Each part has its own specification (SpecOpt, SpecBool, SpecVec,        *)
(* SpecPush, SpecPair, SpecAssert, SpecTrail, SpecSolve); the variables of *)
(* the other parts stay at their initial values under it.                  *)
(***************************************************************************)
EXTENDS Integers, Sequences, FiniteSets, TLC

VARIABLES
    \* ---- Options.cc -----------------------------------------------------
    optList,     \* Option::getOptionList(): the registered options, in order
    env,         \* the process environment: a partial map name -> value
    argv,        \* argv[0..argc): argv[1] of the model is C's argv[0]
    argc,        \* argc as parseOptions sees and updates it
    pi,          \* parseOptions' loop index i
    pj,          \* parseOptions' write index j
    strict,      \* parseOptions' parameter
    longBits,    \* the build's width of `long` (strtol's result type)
    phase,       \* "static" | "main" | "returned" | "exit0" | "exit1"
    errOut,      \* what was written to stderr, as a sequence of message tags
    argLog,      \* the arguments parseOptions has gone through, each with what
                 \* became of it (history)
    optEvent,    \* the last step taken and what it observed
    \* ---- Vec.h ----------------------------------------------------------
    vec,         \* the vector: [data, sz, cap, elems]
    vecEvent,    \* the last call: operation, argument, the vector before it,
                 \* how it ended, destructor calls and pred calls it made
    dest,        \* a second vector, the argument of copyTo and moveTo
    \* ---- Assert.h / Assert.cc -------------------------------------------
    ndebug,      \* whether the build defines NDEBUG
    asrtCalls,   \* MINISAT_ASSERT expansions executed so far
    asrtEvals,   \* evaluations of an assertion's condition so far
    asrtState,   \* "running" | "aborted"
    asrtErr,     \* what AssertionFailure wrote to stderr, as message tags
    asrtEvent,   \* the last MINISAT_ASSERT executed: its condition and fmt
    \* ---- solver core ----------------------------------------------------
    clauses,     \* the clause store: CRef -> sequence of literals
    watches,     \* literal -> sequence of [cref, blocker]
    assigns,     \* variable -> "True" | "False" | "Undef"
    vlevel,      \* variable -> decision level (-1 if unassigned)
    vreason,     \* variable -> CRef or CRef_Undef
    trail,       \* the assignment trail
    trail_lim,   \* trail index at which each decision level began
    qhead,       \* propagation queue head (an index into the trail)
    satPc,       \* where the solver is: "input" | "search" | "True" | "False" | ...
    model,       \* the extracted model, variable -> "True" | "False" | "Undef"
    ok,          \* false once the clause set is known to be unsatisfiable
    origs,       \* the clauses as they were given to addClause (history)
    enqOK,       \* every enqueue call so far was given CRef_Undef or a clause
                 \* that is unit on its literal as reason (history)
    satEvent     \* the last solver operation and what it returned

optVars == <<optList, env, argv, argc, pi, pj, strict, longBits, phase, errOut, optEvent,
             argLog>>
vecVars == <<vec, vecEvent, dest>>
asrtVars == <<ndebug, asrtCalls, asrtEvals, asrtState, asrtErr, asrtEvent>>
satVars == <<clauses, watches, assigns, vlevel, vreason, trail, trail_lim, qhead, satPc,
             model, ok, origs, enqOK, satEvent>>
vars == <<optVars, vecVars, asrtVars, satVars>>

\* What a step of one part leaves alone.
OptOnly  == UNCHANGED <<vecVars, asrtVars, satVars>>
VecOnly  == UNCHANGED <<optVars, asrtVars, satVars>>
AsrtOnly == UNCHANGED <<optVars, vecVars, satVars>>
SatOnly  == UNCHANGED <<optVars, vecVars, asrtVars>>

-----------------------------------------------------------------------------
(***************************************************************************)
(* Characters and strings.  A C string is a sequence of one-character      *)
(* strings (without the terminating NUL).                                  *)
(***************************************************************************)
UpperCase == <<"A","B","C","D","E","F","G","H","I","J","K","L","M",
               "N","O","P","Q","R","S","T","U","V","W","X","Y","Z">>
LowerCase == <<"a","b","c","d","e","f","g","h","i","j","k","l","m",
               "n","o","p","q","r","s","t","u","v","w","x","y","z">>
Digits    == <<"0","1","2","3","4","5","6","7","8","9">>

\* toupper / tolower of <cctype> in the "C" locale.
toupper(c) ==
    IF \E i \in 1..26 : LowerCase[i] = c
    THEN UpperCase[CHOOSE i \in 1..26 : LowerCase[i] = c]
    ELSE c

tolower(c) ==
    IF \E i \in 1..26 : UpperCase[i] = c
    THEN LowerCase[CHOOSE i \in 1..26 : UpperCase[i] = c]
    ELSE c

isdigit(c) == \E i \in 1..10 : Digits[i] = c
DigitVal(c) == (CHOOSE i \in 1..10 : Digits[i] = c) - 1
isspace(c) == c = " "

\* match(in, str): TRUE iff `str` is a prefix of `in`; the caller's pointer is
\* then advanced past it (MatchRest).
match(in, str) ==
    /\ Len(str) <= Len(in)
    /\ \A i \in 1..Len(str) : in[i] = str[i]

MatchRest(in, str) == SubSeq(in, Len(str) + 1, Len(in))

-----------------------------------------------------------------------------
(***************************************************************************)
(* strtol(str, &end, 10) followed by the conversion to int32_t.            *)
(* Magnitudes are kept as little-endian sequences of 16-bit limbs, so the  *)
(* arithmetic is exact for a 64-bit long.                                  *)
(***************************************************************************)
LimbBase == 2^16
INT32_MAX == 2147483647
INT32_MIN == -2147483647 - 1

RECURSIVE LimbMulAdd(_, _, _)
LimbMulAdd(ls, m, c) ==
    IF ls = <<>>
    THEN IF c = 0 THEN <<>> ELSE <<c % LimbBase>> \o LimbMulAdd(<<>>, m, c \div LimbBase)
    ELSE LET t == Head(ls) * m + c
         IN  <<t % LimbBase>> \o LimbMulAdd(Tail(ls), m, t \div LimbBase)

\* The magnitude of a digit string.
RECURSIVE DigitsMag(_, _)
DigitsMag(ds, acc) ==
    IF ds = <<>> THEN acc
    ELSE DigitsMag(Tail(ds), LimbMulAdd(acc, 10, DigitVal(Head(ds))))

Limb(ls, i) == IF i <= Len(ls) THEN ls[i] ELSE 0

\* mag < 2^(bits-1), for bits a multiple of 16.
MagBelowHalf(ls, bits) ==
    LET top == bits \div 16
    IN  /\ \A i \in 1..Len(ls) : i > top => ls[i] = 0
        /\ Limb(ls, top) < 32768

\* mag = 2^(bits-1)
MagIsHalf(ls, bits) ==
    LET top == bits \div 16
    IN  /\ \A i \in 1..Len(ls) : i # top => ls[i] = 0
        /\ Limb(ls, top) = 32768

\* The low 32 bits of a magnitude, read as a two's-complement int32_t.
Low32(ls) ==
    LET lo == Limb(ls, 1)
        hi == Limb(ls, 2)
    IN  IF hi >= 32768 THEN (hi - LimbBase) * LimbBase + lo ELSE hi * LimbBase + lo

\* Two's-complement negation in 32 bits.
Neg32(x) == IF x = INT32_MIN THEN INT32_MIN ELSE -x

\* (int32_t) LONG_MAX and (int32_t) LONG_MIN for a long of `bits` bits.
LongMaxAsInt32(bits) == IF bits = 32 THEN INT32_MAX ELSE -1
LongMinAsInt32(bits) == IF bits = 32 THEN INT32_MIN ELSE 0

\* The number of leading characters of s that satisfy isspace.
RECURSIVE SkipSpace(_)
SkipSpace(s) == IF s # <<>> /\ isspace(Head(s)) THEN 1 + SkipSpace(Tail(s)) ELSE 0

RECURSIVE DigitRun(_)
DigitRun(s) == IF s # <<>> /\ isdigit(Head(s)) THEN 1 + DigitRun(Tail(s)) ELSE 0

\* int32_t tmp = strtol(str, &end, 10): [tmp, endAt] where endAt is the number
\* of characters before *end.  A long too wide for int32_t is cut to its low
\* 32 bits; strtol itself saturates at LONG_MIN / LONG_MAX.
strtol32(str, bits) ==
    LET ws    == SkipSpace(str)
        s1    == SubSeq(str, ws + 1, Len(str))
        neg   == s1 # <<>> /\ Head(s1) = "-"
        sign  == IF s1 # <<>> /\ Head(s1) \in {"-", "+"} THEN 1 ELSE 0
        s2    == SubSeq(s1, sign + 1, Len(s1))
        nd    == DigitRun(s2)
        mag   == DigitsMag(SubSeq(s2, 1, nd), <<>>)
    IN  IF nd = 0 THEN [tmp |-> 0, endAt |-> 0]
        ELSE [ tmp   |-> IF neg
                         THEN IF MagBelowHalf(mag, bits) \/ MagIsHalf(mag, bits)
                              THEN Neg32(Low32(mag))
                              ELSE LongMinAsInt32(bits)
                         ELSE IF MagBelowHalf(mag, bits)
                              THEN Low32(mag)
                              ELSE LongMaxAsInt32(bits),
               endAt |-> ws + sign + nd ]

-----------------------------------------------------------------------------
\* String literals of Options.cc.
MINISAT_PREFIX == <<"M","I","N","I","S","A","T","_">>
DASH == <<"-">>
DASHDASH == <<"-","-">>
NO_DASH == <<"n","o","-">>
EQ == <<"=">>
HELP == <<"h","e","l","p">>
DASH_VERB == <<"-","v","e","r","b">>
TRUEW == <<"t","r","u","e">>
YESW == <<"y","e","s">>
ONW == <<"o","n">>
ONEW == <<"1">>
FALSEW == <<"f","a","l","s","e">>
NOW == <<"n","o">>
OFFW == <<"o","f","f">>
ZEROW == <<"0">>
\* Option::getHelpPrefixString(): empty unless setHelpPrefixStr is called.
HelpPrefix == <<>>

-----------------------------------------------------------------------------
(***************************************************************************)
(* Options.  An option is a record                                         *)
(*   [kind, name, ival, bval, lo, hi]                                      *)
(* kind "int" is an IntOption (value ival, range [lo, hi]); kind "bool" a  *)
(* BoolOption (value bval).                                                *)
(***************************************************************************)

\* IntOption::parseValue(str, env_name, strict)
IntOptionParseValue(o, str, bits) ==
    LET r == strtol32(str, bits)
    IN  IF r.endAt # Len(str)
        THEN [ok |-> FALSE, opt |-> o, msg |-> <<"value_invalid">>]
        ELSE IF r.tmp > o.hi
        THEN [ok |-> FALSE, opt |-> o, msg |-> <<"value_too_large">>]
        ELSE IF r.tmp < o.lo
        THEN [ok |-> FALSE, opt |-> o, msg |-> <<"value_too_small">>]
        ELSE [ok |-> TRUE, opt |-> [o EXCEPT !.ival = r.tmp], msg |-> <<>>]

true_values  == { TRUEW, YESW, ONW, ONEW }
false_values == { FALSEW, NOW, OFFW, ZEROW }

\* BoolOption::parseValue(str, env_name, strict)
BoolOptionParseValue(o, str) ==
    LET str_lower == [i \in 1..Len(str) |-> tolower(str[i])]
    IN  IF str_lower \in true_values
        THEN [ok |-> TRUE, opt |-> [o EXCEPT !.bval = TRUE], msg |-> <<>>]
        ELSE IF str_lower \in false_values
        THEN [ok |-> TRUE, opt |-> [o EXCEPT !.bval = FALSE], msg |-> <<>>]
        ELSE [ok |-> FALSE, opt |-> o, msg |-> <<"value_invalid">>]

\* The virtual call o->parseValue(str, ...)
parseValue(o, str, bits) ==
    IF o.kind = "bool" THEN BoolOptionParseValue(o, str)
    ELSE IntOptionParseValue(o, str, bits)

\* EnvName without the replacement of '-'.
EnvName_KeepDash(name) ==
    MINISAT_PREFIX \o [i \in 1..Len(name) |-> toupper(name[i])]

\* The name Option::parseEnv builds: "MINISAT_" and then, for every character
\* of the option's name, '_' for '-' and toupper(c) otherwise.
EnvName(name) ==
    MINISAT_PREFIX \o [i \in 1..Len(name) |-> IF name[i] = "-" THEN "_" ELSE toupper(name[i])]

\* getenv(name) on environment e: whether it is set, and its value.
EnvIsSet(e, name) == name \in DOMAIN e

\* Option::parseEnv(): [ret, opt, reads, msg], reads being the names passed to
\* getenv, in order.
parseEnv(o, e, bits) ==
    LET env_name == EnvName(o.name)
    IN  IF EnvIsSet(e, env_name)
        THEN LET r == parseValue(o, e[env_name], bits)
             IN  IF ~r.ok
                 THEN [ret |-> FALSE, opt |-> r.opt, reads |-> <<env_name>>,
                       msg |-> r.msg \o <<"warn_env_ignored">>]
                 ELSE [ret |-> TRUE, opt |-> r.opt, reads |-> <<env_name>>, msg |-> <<>>]
        ELSE [ret |-> FALSE, opt |-> o, reads |-> <<env_name>>, msg |-> <<>>]

\* Option::parse(str): ret is "true", "false", or "exit1" when exit(1) is called.
OptionParse(o, str, bits) ==
    IF ~match(str, DASH) THEN [ret |-> "false", opt |-> o, msg |-> <<>>]
    ELSE LET s1 == MatchRest(str, DASH)
         IN  IF ~match(s1, o.name) THEN [ret |-> "false", opt |-> o, msg |-> <<>>]
             ELSE LET s2 == MatchRest(s1, o.name)
                  IN  IF ~match(s2, EQ) THEN [ret |-> "false", opt |-> o, msg |-> <<>>]
                      ELSE LET r == parseValue(o, MatchRest(s2, EQ), bits)
                           IN  IF ~r.ok
                               THEN [ret |-> "exit1", opt |-> r.opt, msg |-> r.msg]
                               ELSE [ret |-> "true", opt |-> r.opt, msg |-> <<>>]

\* BoolOption::parse(str)
BoolOptionParse(o, str) ==
    IF ~match(str, DASH) THEN [ret |-> "false", opt |-> o, msg |-> <<>>]
    ELSE LET s1 == MatchRest(str, DASH)
         IN  IF match(s1, NO_DASH)
             THEN IF MatchRest(s1, NO_DASH) = o.name
                  THEN [ret |-> "true", opt |-> [o EXCEPT !.bval = FALSE], msg |-> <<>>]
                  ELSE [ret |-> "false", opt |-> o, msg |-> <<>>]
             ELSE IF ~match(s1, o.name) THEN [ret |-> "false", opt |-> o, msg |-> <<>>]
             ELSE LET s2 == MatchRest(s1, o.name)
                  IN  IF match(s2, EQ)
                      THEN LET r == BoolOptionParseValue(o, MatchRest(s2, EQ))
                           IN  IF ~r.ok
                               THEN [ret |-> "exit1", opt |-> r.opt, msg |-> r.msg]
                               ELSE [ret |-> "true", opt |-> r.opt, msg |-> <<>>]
                      ELSE IF s2 = <<>>
                      THEN [ret |-> "true", opt |-> [o EXCEPT !.bval = TRUE], msg |-> <<>>]
                      ELSE [ret |-> "false", opt |-> o, msg |-> <<>>]

\* The virtual call o->parse(str)
parse(o, str, bits) ==
    IF o.kind = "bool" THEN BoolOptionParse(o, str) ELSE OptionParse(o, str, bits)

\* parseOptions' inner loop:
\*   for (k = 0; !parsed_ok && k < getOptionList().size(); k++)
\*       parsed_ok = getOptionList()[k]->parse(argv[i]);
\* res is "accepted" (parsed_ok), "none" (no option took it) or "exit1"; by is
\* the index of the option that ended the loop (0 for "none").
RECURSIVE TryOptions(_, _, _, _)
TryOptions(opts, k, str, bits) ==
    IF k > Len(opts) THEN [res |-> "none", opts |-> opts, by |-> 0, msg |-> <<>>]
    ELSE LET r == parse(opts[k], str, bits)
         IN  IF r.ret = "false" THEN TryOptions(opts, k + 1, str, bits)
             ELSE [res  |-> IF r.ret = "true" THEN "accepted" ELSE "exit1",
                   opts |-> [opts EXCEPT ![k] = r.opt],
                   by   |-> k,
                   msg  |-> r.msg]

\* UnknownArg without the strict test: the argument is always kept.
UnknownArg_NeverStrict(isStrict, str) == "keep"

\* What parseOptions does with an argument no option took:
\*   if (strict && match(argv[i], "-")) fprintf(stderr, "ERROR! Unknown flag ..."), exit(1);
\*   else argv[j++] = argv[i];
UnknownArg(isStrict, str) ==
    IF isStrict /\ match(str, DASH) THEN "exit1" ELSE "keep"

\* The test at the head of parseOptions' loop body:
\*   match(str, "--") && match(str, getHelpPrefixString()) && match(str, "help")
\* "help" / "help_verb": printUsageAndExit; "dropped": neither branch of the
\* inner if is taken; "no": the else branch (the options are tried).
HelpForm(str) ==
    IF match(str, DASHDASH)
       /\ match(MatchRest(str, DASHDASH), HelpPrefix)
       /\ match(MatchRest(MatchRest(str, DASHDASH), HelpPrefix), HELP)
    THEN LET rest == MatchRest(MatchRest(MatchRest(str, DASHDASH), HelpPrefix), HELP)
         IN  IF rest = <<>> THEN "help"
             ELSE IF match(rest, DASH_VERB) THEN "help_verb"
             ELSE "dropped"
    ELSE "no"

NAME_VERB == <<"v","e","r","b">>
NAME_CPU_LIM == <<"c","p","u","-","l","i","m">>
NAME_PRE == <<"p","r","e">>
PROGNAME == <<"m","i","n","i","s","a","t">>
ENV_VERB == <<"M","I","N","I","S","A","T","_","V","E","R","B">>
ENV_CPU_LIM == <<"M","I","N","I","S","A","T","_","C","P","U","_","L","I","M">>
ENV_PRE == <<"M","I","N","I","S","A","T","_","P","R","E">>
VAL_TWO == <<"2">>
VAL_OFF == <<"o","f","f">>

-----------------------------------------------------------------------------
(***************************************************************************)
(* The option parser as a state machine: the static constructors of the    *)
(* options run first (each registers its option and calls parseEnv), then  *)
(* main calls parseOptions(argc, argv, strict), one loop iteration a step. *)
(***************************************************************************)

\* The options the front end declares (spec section 6): -verb (0..2),
\* -cpu-lim, -pre/-no-pre, in declaration order, with their defaults.
Registry ==
    << [kind |-> "int",  name |-> NAME_VERB,    ival |-> 1, bval |-> FALSE, lo |-> 0, hi |-> 2],
       [kind |-> "int",  name |-> NAME_CPU_LIM, ival |-> 0, bval |-> FALSE, lo |-> 0, hi |-> INT32_MAX],
       [kind |-> "bool", name |-> NAME_PRE,     ival |-> 0, bval |-> TRUE,  lo |-> 0, hi |-> 0] >>

\* Command lines: argv[0] and up to MaxArgs arguments from ArgPool.
MaxArgs == 2
ArgPool ==
    { <<"-","v","e","r","b","=","2">>,
      <<"-","v","e","r","b","=","3">>,
      <<"-","v","e","r","b","=","4","2","9","4","9","6","7","2","9","7">>,
      <<"-","c","p","u","-","l","i","m","=","2","1","4","7","4","8","3","6","4","8">>,
      <<"-","n","o","-","p","r","e">>,
      <<"-","p","r","e","=","O","F","F">>,
      <<"-","b","o","g","u","s">>,
      <<"-","-","h","e","l","p">>,
      <<"-","-","h","e","l","p","-","v","e","r","b">>,
      <<"-","-","h","e","l","p","m","e">>,
      <<"i","n",".","c","n","f">> }
CommandLines ==
    { <<PROGNAME>> \o a : a \in UNION { [1..n -> ArgPool] : n \in 0..MaxArgs } }

\* Environments: any subset of EnvKeys set; "2" is a valid value for the two
\* integer options and an invalid one for -pre, "off" the other way round.
EnvKeys == { ENV_VERB, ENV_CPU_LIM, ENV_PRE }
EnvVals(key) == IF key = ENV_CPU_LIM THEN { VAL_TWO } ELSE { VAL_TWO, VAL_OFF }
Environments ==
    UNION { { e \in [S -> {VAL_TWO, VAL_OFF}] : \A key \in S : e[key] \in EnvVals(key) }
            : S \in SUBSET EnvKeys }

NoEvent ==
    [kind |-> "none", arg |-> <<>>, form |-> "no", res |-> "none", by |-> 0,
     reads |-> <<>>, ret |-> FALSE, before |-> <<>>]

OptInit ==
    /\ optList = <<>>
    /\ env \in Environments
    /\ argv \in CommandLines
    /\ argc = Len(argv)
    /\ pi = 1
    /\ pj = 1
    /\ strict \in BOOLEAN
    /\ longBits \in {32, 64}
    /\ phase = "run"
    /\ errOut = <<>>
    /\ optEvent = NoEvent
    /\ argLog = <<>>

\* The state in which no part of the option parser ever runs.
OptIdle ==
    /\ optList = <<>>
    /\ env = <<>>
    /\ argv = <<PROGNAME>>
    /\ argc = 1
    /\ pi = 1
    /\ pj = 1
    /\ strict = FALSE
    /\ longBits = 64
    /\ phase = "idle"
    /\ errOut = <<>>
    /\ optEvent = NoEvent
    /\ argLog = <<>>

AllConstructed == Len(optList) = Len(Registry)

\* IntOption::IntOption / BoolOption::BoolOption: Option's constructor puts the
\* option on the list with its default value; the body calls parseEnv().
ConstructOption ==
    /\ phase = "run"
    /\ ~AllConstructed
    /\ LET o == Registry[Len(optList) + 1]
           r == parseEnv(o, env, longBits)
       IN  /\ optList' = Append(optList, r.opt)
           /\ errOut' = errOut \o r.msg
           /\ optEvent' = [NoEvent EXCEPT !.kind = "construct", !.by = Len(optList) + 1,
                                          !.reads = r.reads, !.ret = r.ret,
                                          !.before = Append(optList, o)]
    /\ UNCHANGED <<env, argv, argc, pi, pj, strict, longBits, phase, argLog>>
    /\ OptOnly

\* One iteration of parseOptions' outer loop, on argv[i].  The fate of the
\* argument goes to argLog:
\*   "usage"    printUsageAndExit is called,
\*   "dropped"  the argument begins with "--<prefix>help" and is neither of the
\*              two help forms: i advances, nothing else happens,
\*   "accepted" an option's parse returned true,
\*   "exit1"    an option's parse or the strict test called exit(1),
\*   "kept"     argv[j++] = argv[i].
ParseArg ==
    /\ phase = "run"
    /\ AllConstructed
    /\ pi < argc
    /\ LET str  == argv[pi + 1]
           form == HelpForm(str)
           t    == TryOptions(optList, 1, str, longBits)
           ev   == [NoEvent EXCEPT !.kind = "arg", !.arg = str, !.form = form,
                                   !.before = optList]
       IN  IF form \in {"help", "help_verb"}
           THEN \* printUsageAndExit: the usage text, then exit(0)
                /\ errOut' = Append(errOut, IF form = "help" THEN "usage" ELSE "usage_verbose")
                /\ phase' = "exit0"
                /\ optEvent' = ev
                /\ argLog' = Append(argLog, [arg |-> str, fate |-> "usage", by |-> 0])
                /\ UNCHANGED <<optList, argv, pi, pj>>
           ELSE IF form = "dropped"
           THEN /\ pi' = pi + 1
                /\ optEvent' = ev
                /\ argLog' = Append(argLog, [arg |-> str, fate |-> "dropped", by |-> 0])
                /\ UNCHANGED <<optList, argv, pj, phase, errOut>>
           ELSE IF t.res = "accepted"
           THEN /\ optList' = t.opts
                /\ pi' = pi + 1
                /\ optEvent' = [ev EXCEPT !.res = "accepted", !.by = t.by]
                /\ argLog' = Append(argLog, [arg |-> str, fate |-> "accepted", by |-> t.by])
                /\ UNCHANGED <<argv, pj, phase, errOut>>
           ELSE IF t.res = "exit1"
           THEN /\ optList' = t.opts
                /\ errOut' = errOut \o t.msg
                /\ phase' = "exit1"
                /\ optEvent' = [ev EXCEPT !.res = "exit1", !.by = t.by]
                /\ argLog' = Append(argLog, [arg |-> str, fate |-> "exit1", by |-> t.by])
                /\ UNCHANGED <<argv, pi, pj>>
           ELSE IF UnknownArg(strict, str) = "exit1"
           THEN /\ errOut' = Append(errOut, "unknown_flag")
                /\ phase' = "exit1"
                /\ optEvent' = ev
                /\ argLog' = Append(argLog, [arg |-> str, fate |-> "exit1", by |-> 0])
                /\ UNCHANGED <<optList, argv, pi, pj>>
           ELSE /\ argv' = [argv EXCEPT ![pj + 1] = str]
                /\ pj' = pj + 1
                /\ pi' = pi + 1
                /\ optEvent' = ev
                /\ argLog' = Append(argLog, [arg |-> str, fate |-> "kept", by |-> 0])
                /\ UNCHANGED <<optList, phase, errOut>>
    /\ UNCHANGED <<env, argc, strict, longBits>>
    /\ OptOnly

\* The end of parseOptions: argc -= (i - j).
ParseReturn ==
    /\ phase = "run"
    /\ AllConstructed
    /\ pi >= argc
    /\ argc' = argc - (pi - pj)
    /\ phase' = "returned"
    /\ optEvent' = [NoEvent EXCEPT !.kind = "return", !.before = optList]
    /\ UNCHANGED <<optList, env, argv, pi, pj, strict, longBits, errOut, argLog>>
    /\ OptOnly

OptNext == ConstructOption \/ ParseArg \/ ParseReturn

NAME_X == <<"x">>
NAME_NO_X == <<"n","o","-","x">>

-----------------------------------------------------------------------------
(***************************************************************************)
(* BoolOption::parse as a function of the option's name and the string:    *)
(* one option, one call.                                                   *)
(***************************************************************************)
MaxStrLen == 4
BoolAlphabet == {"-", "=", "n", "o", "x", "1"}
BoolNames == { NAME_PRE, NAME_X, NAME_NO_X }
BoolWords ==
    true_values \cup false_values \cup
    { <<"T","R","U","E">>, <<"Y","e","s">>, <<"o","N">>, <<"O","F","F">>, <<"N","o">>, <<"m","a","y","b","e">>, <<"2">>, <<"t","r","u">>, <<>> }
\* The strings a call is made with: every string over BoolAlphabet of at most
\* MaxStrLen characters, and the three documented forms for the name.
BoolStrings(n) ==
    UNION { [1..k -> BoolAlphabet] : k \in 0..MaxStrLen }
    \cup { DASH \o n, DASH \o NO_DASH \o n }
    \cup { DASH \o n \o EQ \o w : w \in BoolWords }

BoolInit ==
    /\ \E n \in BoolNames, b \in BOOLEAN :
          optList = << [kind |-> "bool", name |-> n, ival |-> 0, bval |-> b, lo |-> 0, hi |-> 0] >>
    /\ argv \in { <<PROGNAME, str>> : str \in UNION { BoolStrings(n) : n \in BoolNames } }
    /\ env = <<>>
    /\ argc = 2
    /\ pi = 1
    /\ pj = 1
    /\ strict = FALSE
    /\ longBits = 64
    /\ phase = "call"
    /\ errOut = <<>>
    /\ optEvent = NoEvent
    /\ argLog = <<>>

\* optList[0]->parse(argv[1])
BoolParseCall ==
    /\ phase = "call"
    /\ LET r == parse(optList[1], argv[2], longBits)
       IN  /\ optList' = <<r.opt>>
           /\ errOut' = errOut \o r.msg
           /\ phase' = IF r.ret = "exit1" THEN "exit1" ELSE "called"
           /\ optEvent' = [NoEvent EXCEPT !.kind = "boolparse", !.arg = argv[2],
                                          !.res = r.ret, !.before = optList]
    /\ UNCHANGED <<env, argv, argc, pi, pj, strict, longBits, argLog>>
    /\ OptOnly

BoolNext == BoolParseCall

ARG_BOGUS == <<"-","b","o","g","u","s">>

-----------------------------------------------------------------------------
(***************************************************************************)
(* Properties of the option parser.                                        *)
(***************************************************************************)

\* Every registered option's parse returns false on str.
NoOptionAccepts(opts, str, bits) ==
    \A k \in 1..Len(opts) : parse(opts[k], str, bits).ret = "false"

\* str begins with "--<help prefix>help".
BeginsWithHelp(str) == match(str, DASHDASH \o HelpPrefix \o HELP)

Printed(tag) == \E i \in 1..Len(errOut) : errOut[i] = tag

\* C1 as stated: in strict mode, whenever parseOptions meets an argument that
\* begins with '-' and that no registered option accepts, the process exits
\* with code 1 and prints the usage text.
C1_UnknownFlagExit1WithUsage ==
    ( /\ optEvent.kind = "arg"
      /\ strict
      /\ match(optEvent.arg, DASH)
      /\ NoOptionAccepts(optEvent.before, optEvent.arg, longBits) )
    => ( phase = "exit1" /\ (Printed("usage") \/ Printed("usage_verbose")) )

\* C1 amended: in strict mode, whenever parseOptions meets an argument that
\* begins with '-', does not begin with "--<help prefix>help", and on which
\* every registered option's parse returns false, the process writes the
\* "Unknown flag" error line (and not the usage text) and exits with code 1,
\* no option having changed.
C1_UnknownFlagExit1WithError ==
    ( /\ optEvent.kind = "arg"
      /\ strict
      /\ match(optEvent.arg, DASH)
      /\ ~BeginsWithHelp(optEvent.arg)
      /\ NoOptionAccepts(optEvent.before, optEvent.arg, longBits) )
    => ( /\ phase = "exit1"
         /\ errOut # <<>>
         /\ errOut[Len(errOut)] = "unknown_flag"
         /\ ~Printed("usage")
         /\ ~Printed("usage_verbose")
         /\ optList = optEvent.before )

\* C1 witness: strict parseOptions has met "-bogus" as its second argument,
\* after an accepted one, and the process has exited with code 1.
C1_Witness ==
    /\ optEvent.kind = "arg"
    /\ strict
    /\ optEvent.arg = ARG_BOGUS
    /\ pi = 2
    /\ NoOptionAccepts(optEvent.before, optEvent.arg, longBits)
    /\ phase = "exit1"

\* ---- decimal numerals, read as mathematical integers ---------------------
IsDecimal(str) ==
    LET ds == IF str # <<>> /\ Head(str) = "-" THEN Tail(str) ELSE str
    IN  ds # <<>> /\ \A i \in 1..Len(ds) : isdigit(ds[i])

RECURSIVE StripZeros(_)
StripZeros(ds) == IF Len(ds) > 1 /\ Head(ds) = "0" THEN StripZeros(Tail(ds)) ELSE ds

RECURSIVE Horner(_, _)
Horner(ds, acc) == IF ds = <<>> THEN acc ELSE Horner(Tail(ds), 10 * acc + DigitVal(Head(ds)))

DecNegative(str) == Head(str) = "-"
DecDigits(str) == StripZeros(IF DecNegative(str) THEN Tail(str) ELSE str)

\* The numeral denotes an integer in [-2^31, 2^31 - 1].
DecFitsInt32(str) ==
    LET ds == DecDigits(str)
    IN  \/ Len(ds) <= 9
        \/ /\ Len(ds) = 10
           /\ LET a == Horner(SubSeq(ds, 1, 9), 0)
                  d == DigitVal(ds[10])
              IN  a < 214748364 \/ (a = 214748364 /\ d <= (IF DecNegative(str) THEN 8 ELSE 7))

\* Its value, when it fits.
DecValue(str) ==
    LET ds == DecDigits(str)
        a  == Horner(SubSeq(ds, 1, Len(ds) - 1), 0)
        d  == DigitVal(ds[Len(ds)])
    IN  IF DecNegative(str) THEN (0 - 10 * a) - d ELSE 10 * a + d

DecInRange(str, lo, hi) ==
    DecFitsInt32(str) /\ lo <= DecValue(str) /\ DecValue(str) <= hi

\* C2 as stated: for an IntOption with range [begin, end], an argument
\* "-<name>=<v>" sets the option's value to v if and only if begin <= v <= end;
\* for every other integer v (also one that does not fit in 32 bits) the value
\* is left unchanged and the process exits with code 1.
C2_IntOptionSetsExactlyInRange ==
    optEvent.kind = "arg" =>
        \A k \in 1..Len(optEvent.before) :
            LET o == optEvent.before[k]
                p == DASH \o o.name \o EQ
                v == MatchRest(optEvent.arg, p)
            IN  ( o.kind = "int" /\ match(optEvent.arg, p) /\ IsDecimal(v) ) =>
                    IF DecInRange(v, o.lo, o.hi)
                    THEN optList[k].ival = DecValue(v) /\ phase = "run"
                    ELSE optList[k].ival = o.ival /\ phase = "exit1"

\* ---- environment names ----------------------------------------------------
\* e is "MINISAT_" followed by n with every lower-case letter replaced by its
\* capital, every '-' by '_', and every other character kept.
IsUpperSnakeOf(e, n) ==
    /\ Len(e) = Len(n) + 8
    /\ SubSeq(e, 1, 8) = MINISAT_PREFIX
    /\ \A i \in 1..Len(n) :
          /\ n[i] = "-" => e[8 + i] = "_"
          /\ \A c \in 1..26 : n[i] = LowerCase[c] => e[8 + i] = UpperCase[c]
          /\ ( n[i] # "-" /\ ~\E c \in 1..26 : n[i] = LowerCase[c] ) => e[8 + i] = n[i]

\* C3: Option::parseEnv consults exactly one environment variable, named
\* "MINISAT_" + the option's name in upper case with '-' replaced by '_'; if
\* that variable is unset, the option's value is unchanged and parseEnv
\* returns false.
C3_ParseEnvOneUpperSnakeVariable ==
    optEvent.kind = "construct" =>
        LET k == optEvent.by
            o == optEvent.before[k]
        IN  /\ Len(optEvent.reads) = 1
            /\ IsUpperSnakeOf(optEvent.reads[1], o.name)
            /\ optEvent.reads[1] \notin DOMAIN env
                  => ( optList[k] = o /\ optEvent.ret = FALSE )

\* C3 witness: the option "cpu-lim" has been constructed with MINISAT_CPU_LIM
\* unset (and MINISAT_VERB set): parseEnv returned false, the default stands.
C3_Witness ==
    /\ optEvent.kind = "construct"
    /\ optEvent.by = 2
    /\ optList[2].name = NAME_CPU_LIM
    /\ optEvent.reads = <<ENV_CPU_LIM>>
    /\ ENV_CPU_LIM \notin DOMAIN env
    /\ ENV_VERB \in DOMAIN env
    /\ optEvent.ret = FALSE
    /\ optList[2].ival = Registry[2].ival

\* ---- BoolOption::parse ----------------------------------------------------
SameIgnoringCase(a, b) ==
    /\ Len(a) = Len(b)
    /\ \A i \in 1..Len(a) :
          \/ a[i] = b[i]
          \/ \E c \in 1..26 : {a[i], b[i]} = {LowerCase[c], UpperCase[c]}

\* C4 as stated: for a BoolOption named n, parse("-n") sets the value to true
\* and returns true; parse("-no-n") sets it to false and returns true;
\* parse("-n=V") sets it to true when V is, ignoring case, one of
\* true/yes/on/1 and to false when V is one of false/no/off/0; for every other
\* string not of the form "-n=..." parse returns false and leaves the value
\* unchanged.
C4_BoolParseForms ==
    optEvent.kind = "boolparse" =>
        LET o  == optEvent.before[1]
            n  == o.name
            str == optEvent.arg
            pe == DASH \o n \o EQ
            V  == MatchRest(str, pe)
        IN  /\ str = DASH \o n => ( optEvent.res = "true" /\ optList[1].bval = TRUE )
            /\ str = DASH \o NO_DASH \o n => ( optEvent.res = "true" /\ optList[1].bval = FALSE )
            /\ ( match(str, pe) /\ \E w \in true_values : SameIgnoringCase(V, w) )
                  => optList[1].bval = TRUE
            /\ ( match(str, pe) /\ \E w \in false_values : SameIgnoringCase(V, w) )
                  => optList[1].bval = FALSE
            /\ ( str # DASH \o n /\ str # DASH \o NO_DASH \o n /\ ~match(str, pe) )
                  => ( optEvent.res = "false" /\ optList[1] = o )

\* ---- default, then environment, then command line -------------------------
\* The option holds the value that the text str denotes.
HoldsValueOf(o, str) ==
    IF o.kind = "int"
    THEN IsDecimal(str) /\ DecFitsInt32(str) /\ o.ival = DecValue(str)
    ELSE \/ o.bval /\ \E w \in true_values : SameIgnoringCase(str, w)
         \/ ~o.bval /\ \E w \in false_values : SameIgnoringCase(str, w)

\* str is a valid value for the option: an integer of its range, or one of
\* the words for true and false.
ValidFor(o, str) ==
    IF o.kind = "int" THEN IsDecimal(str) /\ DecInRange(str, o.lo, o.hi)
    ELSE \E w \in true_values \cup false_values : SameIgnoringCase(str, w)

SameValue(o, d) == IF o.kind = "int" THEN o.ival = d.ival ELSE o.bval = d.bval

\* The environment variables of option o that are set.
EnvOf(o) == { e \in DOMAIN env : IsUpperSnakeOf(e, o.name) }

\* The places in argLog of the accepted arguments of the k-th option.
AcceptedFor(k) ==
    { n \in 1..Len(argLog) : argLog[n].fate = "accepted" /\ argLog[n].by = k }

\* The value text of an argument of option o: what follows "-<name>="; the
\* forms "-<name>" and "-no-<name>" of a BoolOption are read as
\* "-<name>=true" and "-<name>=false".
ValueText(o, arg) ==
    IF match(arg, DASH \o o.name \o EQ) THEN MatchRest(arg, DASH \o o.name \o EQ)
    ELSE IF arg = DASH \o o.name THEN TRUEW
    ELSE FALSEW

Last(ns) == CHOOSE n \in ns : \A m \in ns : m <= n

\* C16: after the construction of the options and a parseOptions that has
\* returned, an option's value is the value of the last accepted
\* "-<name>=<value>" argument if there is one, otherwise the value of its
\* MINISAT_ environment variable if that is set and valid, otherwise its
\* default; an invalid environment value does not end the process and
\* leaves the default in place.
C16_DefaultEnvCommandLine ==
    /\ phase = "returned" =>
          \A k \in 1..Len(optList) :
             LET o == optList[k]
             IN  IF AcceptedFor(k) # {}
                 THEN HoldsValueOf(o, ValueText(o, argLog[Last(AcceptedFor(k))].arg))
                 ELSE IF \E e \in EnvOf(o) : ValidFor(o, env[e])
                 THEN \A e \in EnvOf(o) : HoldsValueOf(o, env[e])
                 ELSE SameValue(o, Registry[k])
    /\ optEvent.kind = "construct" =>
          LET k == optEvent.by
          IN  ( \E e \in EnvOf(optList[k]) : ~ValidFor(optList[k], env[e]) )
                 => ( phase = "run" /\ SameValue(optList[k], Registry[k]) )

\* The part of C16 about the construction: the option has the valid value
\* of its environment variable, or else its default, and the process runs.
EnvThenDefault ==
    optEvent.kind = "construct" =>
        LET o == optList[optEvent.by]
        IN  /\ phase = "run"
            /\ IF \E e \in EnvOf(o) : ValidFor(o, env[e])
               THEN \A e \in EnvOf(o) : HoldsValueOf(o, env[e])
               ELSE SameValue(o, Registry[optEvent.by])

\* ---- what parseOptions removes from argv -----------------------------------
NotAccepted(entry) == entry.fate # "accepted"
WasKept(entry) == entry.fate = "kept"

\* The arguments of the entries of log, in order.
ArgsOf(log) == [n \in 1..Len(log) |-> log[n].arg]

\* The options of opts whose parse returns true on str.
Acceptors(opts, str, bits) == { k \in 1..Len(opts) : parse(opts[k], str, bits).ret = "true" }

First(ks) == CHOOSE k \in ks : \A m \in ks : k <= m

\* C17: non-strict parseOptions, when it returns, has removed exactly the
\* arguments that some registered option accepted: argv[0] is untouched,
\* argv[1..argc) holds every argument that no option accepted, in the
\* original order, argc is reduced by the number of accepted arguments; and
\* an accepted argument has set the value of one option, the first of the
\* list that accepts it, and has left every other option as it was.
C17_RemovesExactlyAccepted ==
    /\ ( phase = "returned" /\ ~strict ) =>
          /\ argv[1] = PROGNAME
          /\ SubSeq(argv, 2, argc) = ArgsOf(SelectSeq(argLog, NotAccepted))
          /\ argc = (Len(argLog) + 1) - Len(SelectSeq(argLog, LAMBDA en : ~NotAccepted(en)))
    /\ ( optEvent.kind = "arg" /\ optEvent.res = "accepted" /\ ~strict ) =>
          LET ks == Acceptors(optEvent.before, optEvent.arg, longBits)
          IN  /\ ks # {}
              /\ optList[First(ks)] = parse(optEvent.before[First(ks)], optEvent.arg, longBits).opt
              /\ \A k \in 1..Len(optList) : k # First(ks) => optList[k] = optEvent.before[k]

\* What holds of the returned argv: argv[0] is untouched, argv[1..argc) holds
\* the arguments that parseOptions kept (argv[j++] = argv[i]) in the original
\* order, and argc is one more than their number.
ReturnsKeptInOrder ==
    ( phase = "returned" /\ ~strict ) =>
        /\ argv[1] = PROGNAME
        /\ SubSeq(argv, 2, argc) = ArgsOf(SelectSeq(argLog, WasKept))
        /\ argc = Len(SelectSeq(argLog, WasKept)) + 1

-----------------------------------------------------------------------------
(***************************************************************************)
(* Vec.h: vec<T, Size = int>.                                              *)
(*                                                                         *)
(* vec is the record [data, sz, cap, elems]: data is "NULL" or "HEAP";     *)
(* elems holds data[0..sz), the elements in use (empty while data is       *)
(* NULL).  Element values are integers: DefaultT is T(), Indeterminate the *)
(* content of memory that realloc returned and nothing has written.        *)
(***************************************************************************)
INT_MAX == 2147483647
INT_MIN == -2147483647 - 1
DefaultT == 0
Indeterminate == -1

EmptyVec == [data |-> "NULL", sz |-> 0, cap |-> 0, elems |-> <<>>]

\* data[0..n) of the elements in use (nothing while data is NULL).
Prefix(elems, n) == [i \in 1..(IF n < Len(elems) THEN n ELSE Len(elems)) |-> elems[i]]

\* AndNot1 that leaves the lowest bit in place.
AndNot1_KeepBit(x) == x

\* x & ~1 in two's complement.
AndNot1(x) == x - (x % 2)

\* vec::max
max(x, y) == IF x > y THEN x ELSE y

\* GrowthAdd with the capacity doubled instead of grown by a half.
GrowthAdd_Double(c) == AndNot1(c + 2)

\* ((cap >> 1) + 2) & ~1
GrowthAdd(c) == AndNot1((c \div 2) + 2)

\* The outcome of a call: out is
\*   "ok"    the call returned,
\*   "oom"   it threw OutOfMemoryException,
\*   "abort" the process was stopped (an overflow trap),
\*   "ub"    it dereferenced a null data pointer.
Outcome(v, out, dtor, calls) == [vec |-> v, out |-> out, dtor |-> dtor, calls |-> calls]

\* vec::capacity(min_cap).
\*   alloc: what realloc does if it is called, "ok" or "enomem" (a null result
\*          with errno = ENOMEM, as POSIX has it);
\*   ovf:   what the build makes of the signed overflow in min_cap - cap + 1,
\*          "modular" (the two's-complement result) or "trap".
capacity(v, min_cap, alloc, ovf) ==
    IF v.cap >= min_cap THEN Outcome(v, "ok", <<>>, <<>>)
    ELSE LET overflows == (min_cap - v.cap) = INT_MAX
             need      == IF overflows THEN INT_MIN ELSE AndNot1(min_cap - v.cap + 1)
             add       == max(need, GrowthAdd(v.cap))
         IN  IF overflows /\ ovf = "trap" THEN Outcome(v, "abort", <<>>, <<>>)
             ELSE IF add > INT_MAX - v.cap THEN Outcome(v, "oom", <<>>, <<>>)
             ELSE IF alloc = "enomem"
             THEN Outcome([v EXCEPT !.data = "NULL", !.cap = v.cap + add, !.elems = <<>>],
                          "oom", <<>>, <<>>)
             ELSE Outcome([v EXCEPT !.data = "HEAP", !.cap = v.cap + add,
                                    !.elems = IF v.data = "NULL"
                                              THEN [i \in 1..v.sz |-> Indeterminate]
                                              ELSE v.elems],
                          "ok", <<>>, <<>>)

\* vec::push(elem); push(void) is push(DefaultT).
push(v, elem, alloc, ovf) ==
    LET c == IF v.sz = v.cap THEN capacity(v, v.sz + 1, alloc, ovf)
             ELSE Outcome(v, "ok", <<>>, <<>>)
        w == c.vec
    IN  IF c.out # "ok" THEN c
        ELSE IF w.data = "NULL" THEN Outcome(w, "ub", <<>>, <<>>)
        ELSE Outcome([w EXCEPT !.sz = w.sz + 1, !.elems = Append(w.elems, elem)],
                     "ok", <<>>, <<>>)

\* vec::push_(elem), called with sz < cap.
push_(v, elem) ==
    IF v.data = "NULL" THEN Outcome(v, "ub", <<>>, <<>>)
    ELSE Outcome([v EXCEPT !.sz = v.sz + 1, !.elems = Append(v.elems, elem)],
                 "ok", <<>>, <<>>)

\* vec::pop(), called with sz > 0:  data[sz--].~T()
pop(v) ==
    IF v.data = "NULL" THEN Outcome(v, "ub", <<>>, <<>>)
    ELSE Outcome([v EXCEPT !.sz = v.sz - 1, !.elems = Prefix(v.elems, v.sz - 1)],
                 "ok", <<v.sz>>, <<>>)

\* vec::shrink(nelems), called with nelems <= sz:
\*   for (i = 0; i < nelems; i++) sz--, data[sz].~T();
shrink(v, nelems) ==
    IF nelems > 0 /\ v.data = "NULL" THEN Outcome(v, "ub", <<>>, <<>>)
    ELSE Outcome([v EXCEPT !.sz = v.sz - nelems, !.elems = Prefix(v.elems, v.sz - nelems)],
                 "ok", [i \in 1..nelems |-> v.sz - i], <<>>)

\* vec::shrink_(nelems), called with nelems <= sz:  sz -= nelems
shrink_(v, nelems) ==
    Outcome([v EXCEPT !.sz = v.sz - nelems,
                      !.elems = Prefix(v.elems, v.sz - nelems)],
            "ok", <<>>, <<>>)

\* vec::growTo(size, pad); growTo(size) is growTo(size, DefaultT).
growTo(v, size, pad, alloc, ovf) ==
    IF v.sz >= size THEN Outcome(v, "ok", <<>>, <<>>)
    ELSE LET c == capacity(v, size, alloc, ovf)
             w == c.vec
         IN  IF c.out # "ok" THEN c
             ELSE IF w.data = "NULL" THEN Outcome(w, "ub", <<>>, <<>>)
             ELSE Outcome([w EXCEPT !.sz = size,
                                    !.elems = w.elems \o [i \in 1..(size - w.sz) |-> pad]],
                          "ok", <<>>, <<>>)

\* vec::clear(dealloc)
clear(v, dealloc) ==
    IF v.data = "NULL" THEN Outcome(v, "ok", <<>>, <<>>)
    ELSE Outcome(IF dealloc THEN EmptyVec ELSE [v EXCEPT !.sz = 0, !.elems = <<>>],
                 "ok", [i \in 1..v.sz |-> i - 1], <<>>)

\* RetainLoop that copies the kept element without advancing j.
RECURSIVE RetainLoop_StuckJ(_, _, _, _, _)
RetainLoop_StuckJ(arr, i, j, K, calls) ==
    IF i >= Len(arr) THEN [arr |-> arr, i |-> i, j |-> j, calls |-> calls]
    ELSE IF arr[i + 1] \in K
         THEN RetainLoop_StuckJ([arr EXCEPT ![j + 1] = arr[i + 1]], i + 1, j, K, Append(calls, i))
         ELSE RetainLoop_StuckJ(arr, i + 1, j, K, Append(calls, i))

\* The loop of vec::retain, from (i, j) on the array arr = data[0..sz):
\*   for (; i < size(); ++i) { T &value = (*this)[i]; if (pred(value)) (*this)[j++] = value; }
\* pred is the membership test of K; calls lists the indices pred was applied to.
RECURSIVE RetainLoop(_, _, _, _, _)
RetainLoop(arr, i, j, K, calls) ==
    IF i >= Len(arr) THEN [arr |-> arr, i |-> i, j |-> j, calls |-> calls]
    ELSE IF arr[i + 1] \in K
         THEN RetainLoop([arr EXCEPT ![j + 1] = arr[i + 1]], i + 1, j + 1, K, Append(calls, i))
         ELSE RetainLoop(arr, i + 1, j, K, Append(calls, i))

\* vec::retain(pred): the loop, then shrink(i - j).
retain(v, K) ==
    IF v.sz > 0 /\ v.data = "NULL" THEN Outcome(v, "ub", <<>>, <<>>)
    ELSE LET l == RetainLoop(v.elems, 0, 0, K, <<>>)
             r == shrink([v EXCEPT !.elems = l.arr], l.i - l.j)
         IN  Outcome(r.vec, r.out, r.dtor, l.calls)

\* v.copyTo(copy):
\*   copy.clear(); copy.growTo(sz); for (i = 0; i < sz; i++) copy[i] = data[i];
\* The result is the vector copy; v is not changed.
copyTo(v, copy, alloc, ovf) ==
    LET c == clear(copy, FALSE)
        g == growTo(c.vec, v.sz, DefaultT, alloc, ovf)
        w == g.vec
    IN  IF g.out # "ok" THEN Outcome(w, g.out, c.dtor, <<>>)
        ELSE IF v.sz > 0 /\ (v.data = "NULL" \/ w.data = "NULL")
        THEN Outcome(w, "ub", c.dtor, <<>>)
        ELSE Outcome([w EXCEPT !.elems = v.elems \o SubSeq(w.elems, v.sz + 1, Len(w.elems))],
                     "ok", c.dtor, <<>>)

\* v.moveTo(dest):
\*   dest.clear(true); dest.data = data; dest.sz = sz; dest.cap = cap;
\*   data = NULL; sz = 0; cap = 0;
\* The result holds both vectors: vec is v afterwards, to is dest afterwards.
moveTo(v, d) ==
    [vec |-> EmptyVec, to |-> v, out |-> "ok", dtor |-> clear(d, TRUE).dtor, calls |-> <<>>]

-----------------------------------------------------------------------------
\* The calls made on the vector.
MaxSize   == 3
MaxCapArg == 7
Elems     == {1, 2}
CapArgs   == (-1..MaxCapArg) \cup {INT_MAX - 1, INT_MAX}
AllocOutcomes    == {"ok", "enomem"}
OverflowOutcomes == {"modular", "trap"}

NoVecEvent == [op |-> "none", arg |-> 0, K |-> {}, pre |-> EmptyVec, out |-> "ok",
               dtor |-> <<>>, calls |-> <<>>]

VecInit ==
    /\ vec = EmptyVec
    /\ vecEvent = NoVecEvent
    /\ dest = EmptyVec

VecIdle == VecInit

\* The vector can be called: the process runs and no call has had undefined
\* behaviour.
VecUsable == vecEvent.out \in {"ok", "oom"}

Did(op, arg, K, r) ==
    /\ vec' = r.vec
    /\ vecEvent' = [op |-> op, arg |-> arg, K |-> K, pre |-> vec, out |-> r.out,
                    dtor |-> r.dtor, calls |-> r.calls]
    /\ dest' = dest
    /\ VecOnly

CallCapacity ==
    /\ VecUsable
    /\ \E m \in CapArgs, a \in AllocOutcomes, o \in OverflowOutcomes :
          Did("capacity", m, {}, capacity(vec, m, a, o))

CallPush ==
    /\ VecUsable
    /\ vec.sz < MaxSize
    /\ \E e \in Elems \cup {DefaultT}, a \in AllocOutcomes, o \in OverflowOutcomes :
          Did("push", e, {}, push(vec, e, a, o))

CallPush_ ==
    /\ VecUsable
    /\ vec.sz < vec.cap
    /\ vec.sz < MaxSize
    /\ \E e \in Elems : Did("push_", e, {}, push_(vec, e))

CallPop ==
    /\ VecUsable
    /\ vec.sz > 0
    /\ Did("pop", 0, {}, pop(vec))

CallShrink ==
    /\ VecUsable
    /\ \E n \in 0..vec.sz : Did("shrink", n, {}, shrink(vec, n))

CallShrink_ ==
    /\ VecUsable
    /\ \E n \in 0..vec.sz : Did("shrink_", n, {}, shrink_(vec, n))

CallGrowTo ==
    /\ VecUsable
    /\ \E n \in 0..MaxSize, e \in Elems \cup {DefaultT}, a \in AllocOutcomes, o \in OverflowOutcomes :
          Did("growTo", n, {}, growTo(vec, n, e, a, o))

CallClear ==
    /\ VecUsable
    /\ \E d \in BOOLEAN : Did("clear", IF d THEN 1 ELSE 0, {}, clear(vec, d))

CallRetain ==
    /\ VecUsable
    /\ \E K \in SUBSET (Elems \cup {DefaultT}) : Did("retain", 0, K, retain(vec, K))

VecNext ==
    \/ CallCapacity
    \/ CallPush
    \/ CallPush_
    \/ CallPop
    \/ CallShrink
    \/ CallShrink_
    \/ CallGrowTo
    \/ CallClear
    \/ CallRetain

\* Only push(void), from the empty vector, at most MaxPush times.
MaxPush == 150

PushNext ==
    /\ VecUsable
    /\ vec.sz < MaxPush
    /\ \E a \in AllocOutcomes, o \in OverflowOutcomes :
          Did("push", DefaultT, {}, push(vec, DefaultT, a, o))

\* Two vectors, vec and dest.  Every call of VecNext is made on vec; copyTo
\* and moveTo are called in both directions.  The values of the elements
\* play no part in sizes and capacities: here the calls on vec store DefaultT
\* only, retain keeps DefaultT or nothing, and vec holds at most MaxPairSize
\* elements.
MaxPairSize == 2

DefaultsOnly(v) == \A i \in 1..Len(v.elems) : v.elems[i] \in {DefaultT, Indeterminate}

PairEvent(op, arg, r) ==
    [op |-> op, arg |-> arg, K |-> {}, pre |-> vec, out |-> r.out,
     dtor |-> r.dtor, calls |-> r.calls]

CallOnVec ==
    /\ VecNext
    /\ DefaultsOnly(vec')
    /\ vec'.sz <= MaxPairSize
    /\ vecEvent'.K \subseteq {DefaultT}
    /\ vecEvent'.op \in {"push", "push_"} => vecEvent'.arg = DefaultT

\* vec.copyTo(dest)
CallCopyTo ==
    /\ VecUsable
    /\ \E a \in AllocOutcomes, o \in OverflowOutcomes :
          LET r == copyTo(vec, dest, a, o)
          IN  /\ dest' = r.vec
              /\ vec' = vec
              /\ vecEvent' = PairEvent("copyTo", 0, r)
    /\ VecOnly

\* dest.copyTo(vec)
CallCopyFrom ==
    /\ VecUsable
    /\ \E a \in AllocOutcomes, o \in OverflowOutcomes :
          LET r == copyTo(dest, vec, a, o)
          IN  /\ vec' = r.vec
              /\ dest' = dest
              /\ vecEvent' = PairEvent("copyTo", 1, r)
    /\ VecOnly

\* vec.moveTo(dest)
CallMoveTo ==
    /\ VecUsable
    /\ LET r == moveTo(vec, dest)
       IN  /\ vec' = r.vec
           /\ dest' = r.to
           /\ vecEvent' = PairEvent("moveTo", 0, r)
    /\ VecOnly

\* dest.moveTo(vec)
CallMoveFrom ==
    /\ VecUsable
    /\ LET r == moveTo(dest, vec)
       IN  /\ dest' = r.vec
           /\ vec' = r.to
           /\ vecEvent' = PairEvent("moveTo", 1, r)
    /\ VecOnly

PairNext ==
    \/ CallOnVec
    \/ CallCopyTo
    \/ CallCopyFrom
    \/ CallMoveTo
    \/ CallMoveFrom

-----------------------------------------------------------------------------
(***************************************************************************)
(* Properties of vec.                                                      *)
(***************************************************************************)

\* C5 as stated: vec::capacity(min_cap) has exactly two outcomes: it returns
\* with cap >= min_cap, with size and the elements in use preserved and cap
\* not decreased, or it throws OutOfMemoryException; it never returns
\* normally with a buffer that was not grown to min_cap.  (A call that the
\* build stops with an overflow trap has no outcome and is left aside.)
C5_CapacityGrowsOrThrows ==
    ( vecEvent.op = "capacity" /\ vecEvent.out # "abort" ) =>
        \/ vecEvent.out = "oom"
        \/ /\ vecEvent.out = "ok"
           /\ vec.cap >= vecEvent.arg
           /\ vec.cap >= vecEvent.pre.cap
           /\ vec.sz = vecEvent.pre.sz
           /\ vecEvent.pre.data = "HEAP" => vec.elems = vecEvent.pre.elems
           /\ vec.cap > 0 => vec.data = "HEAP"

\* C6: whenever push() is called on a full vector of capacity c (size = c)
\* reached from the empty vector by pushes, and returns, the new capacity c'
\* satisfies  c + floor(c/2) < c' <= c + floor(c/2) + 2.
C6_PushGrowsByThreeHalves ==
    ( /\ vecEvent.op = "push"
      /\ vecEvent.pre.sz = vecEvent.pre.cap
      /\ vecEvent.out = "ok" )
    => LET c == vecEvent.pre.cap
       IN  /\ c + (c \div 2) < vec.cap
           /\ vec.cap <= c + (c \div 2) + 2

\* C6 witness: a push on the full vector of capacity 52 has returned, with the
\* capacity grown to 80.
C6_Witness ==
    /\ vecEvent.op = "push"
    /\ vecEvent.out = "ok"
    /\ vecEvent.pre.sz = 52
    /\ vecEvent.pre.cap = 52
    /\ vec.cap = 80
    /\ vec.sz = 53

\* The elements of seq that are in K, in order.
RECURSIVE Filter(_, _)
Filter(seq, K) ==
    IF seq = <<>> THEN <<>>
    ELSE (IF Head(seq) \in K THEN <<Head(seq)>> ELSE <<>>) \o Filter(Tail(seq), K)

\* C8: after vec::retain(pred) the vector holds exactly the elements of the
\* original vector for which pred returned true, in their original order and
\* with their multiplicity; its size is their number, its capacity is
\* unchanged, and pred was applied exactly once to each original element.
C8_RetainFilters ==
    ( vecEvent.op = "retain" /\ vecEvent.out = "ok" )
    => /\ vec.elems = Filter(vecEvent.pre.elems, vecEvent.K)
       /\ vec.sz = Len(Filter(vecEvent.pre.elems, vecEvent.K))
       /\ vec.cap = vecEvent.pre.cap
       /\ vec.data = vecEvent.pre.data
       /\ Len(vecEvent.calls) = vecEvent.pre.sz
       /\ \A i \in 0..(vecEvent.pre.sz - 1) :
             Cardinality({n \in 1..Len(vecEvent.calls) : vecEvent.calls[n] = i}) = 1

\* C8 witness: retain has kept the two 1s of <<1, 2, 1>> and dropped the 2.
C8_Witness ==
    /\ vecEvent.op = "retain"
    /\ vecEvent.out = "ok"
    /\ vecEvent.pre.elems = <<1, 2, 1>>
    /\ vecEvent.K = {1}
    /\ vec.elems = <<1, 1>>
    /\ vec.sz = 2

\* ---- pop --------------------------------------------------------------------
\* C12: pop() on a vector of size n > 0 leaves size n-1, the elements at
\* indices 0..n-2 and the capacity unchanged, and runs the destructor of
\* exactly one element, the one at index n-1; no index >= n is touched.
C12_PopDestroysLast ==
    ( vecEvent.op = "pop" /\ vecEvent.out = "ok" )
    => /\ vec.sz = vecEvent.pre.sz - 1
       /\ vec.elems = Prefix(vecEvent.pre.elems, vecEvent.pre.sz - 1)
       /\ vec.cap = vecEvent.pre.cap
       /\ vecEvent.dtor = << vecEvent.pre.sz - 1 >>
       /\ \A n \in 1..Len(vecEvent.dtor) : vecEvent.dtor[n] < vecEvent.pre.sz

\* The part of C12 about size, elements and capacity alone.
PopKeepsPrefix ==
    ( vecEvent.op = "pop" /\ vecEvent.out = "ok" )
    => /\ vec.sz = vecEvent.pre.sz - 1
       /\ vec.elems = Prefix(vecEvent.pre.elems, vecEvent.pre.sz - 1)
       /\ vec.cap = vecEvent.pre.cap

\* ---- capacities are even ----------------------------------------------------
\* A full vector of the largest even capacity (its elements left out).
FullAtMax == [data |-> "HEAP", sz |-> INT_MAX - 1, cap |-> INT_MAX - 1, elems |-> <<>>]

\* C13: every capacity a vec has, after any sequence of push, push_, pop,
\* shrink, growTo, capacity(min_cap), clear, retain and moveTo from the empty
\* vector, is even; hence the sz + 1 that push hands to capacity is at most
\* INT_MAX (no overflow), and where it is INT_MAX capacity throws before an
\* element is stored.
C13_CapacityEven ==
    /\ vec.cap % 2 = 0
    /\ dest.cap % 2 = 0
    /\ vec.sz = vec.cap => vec.sz + 1 <= INT_MAX
    /\ \A a \in AllocOutcomes, o \in OverflowOutcomes :
          push(FullAtMax, DefaultT, a, o).out = "oom"

\* C13 witness: vec has received by moveTo the capacity INT_MAX - 1 that
\* capacity(INT_MAX - 1) had given to the other vector.
C13_Witness ==
    /\ vecEvent.op = "moveTo"
    /\ vecEvent.arg = 1
    /\ vec.cap = INT_MAX - 1
    /\ dest.cap = 0

\* ---- size, capacity and the data pointer ------------------------------------
\* 0 <= size <= capacity.
SizeWithinCapacity(v) == 0 <= v.sz /\ v.sz <= v.cap

\* C14: in every state reached from the empty vector by calls of push, push_,
\* pop, shrink, shrink_, growTo, capacity, clear(false), clear(true), retain,
\* copyTo and moveTo whose asserted preconditions hold, 0 <= size <= capacity
\* and the data pointer is null only when the capacity is 0.
C14_SizeCapacityData ==
    VecUsable => \A v \in {vec, dest} :
                    /\ SizeWithinCapacity(v)
                    /\ v.data = "NULL" => v.cap = 0

\* The part of C14 about the size alone.
SizeInvariant == VecUsable => SizeWithinCapacity(vec) /\ SizeWithinCapacity(dest)

\* ---- capacity that throws ----------------------------------------------------
\* C15: when capacity, called directly or through push or growTo, throws
\* OutOfMemoryException, the vector is as it was before the call: same
\* size, same capacity, same data buffer and elements.
C15_ThrowLeavesVectorUnchanged ==
    ( vecEvent.op \in {"capacity", "push", "growTo"} /\ vecEvent.out = "oom" )
    => vec = vecEvent.pre

\* The size is what it was when capacity throws.
ThrowKeepsSize ==
    ( vecEvent.op \in {"capacity", "push", "growTo"} /\ vecEvent.out = "oom" )
    => vec.sz = vecEvent.pre.sz

-----------------------------------------------------------------------------
(***************************************************************************)
(* MINISAT_ASSERT and AssertionFailure (Assert.h, Assert.cc).              *)
(* The condition c of an assertion is a C scalar; evaluating it is counted *)
(* in asrtEvals (c may have side effects).  The block of Assert.h that     *)
(* defines MINISAT_ASSERT_TESTX is skipped by every compiler that has      *)
(* __has_builtin, and the macro it defines is not used.                    *)
(***************************************************************************)
MaxAsserts == 10

\* The values a condition evaluates to, and whether a format is passed.
CondVals == {0, 1, 2}
FmtArgs  == {"nullptr", "fmt"}

NoAsrtEvent == [op |-> "none", c |-> 0, fmt |-> "nullptr", evals |-> 0, err |-> <<>>]

MINISAT_ASSERT_TEST_Negated(c) == c = 0

\* #define MINISAT_ASSERT_TEST(c) (!!(c))
MINISAT_ASSERT_TEST(c) == ~(~(c # 0))

\* AssertionFailure: the header line, the formatted message and a newline
\* if fmt is not null, the location line, then abort().
AssertionFailure(fmt) ==
    [ err   |-> <<"assertion_failed">>
                \o (IF fmt # "nullptr" THEN <<"message", "newline">> ELSE <<>>)
                \o <<"location">>,
      state |-> "aborted" ]

\* One execution of the expansion of MINISAT_ASSERT(c, ...): how often c is
\* evaluated, what is written to stderr, and whether the process goes on.
MINISAT_ASSERT(nd, c, fmt) ==
    IF nd THEN [evals |-> 0, err |-> <<>>, state |-> "running"]
    ELSE IF MINISAT_ASSERT_TEST(c)
         THEN [evals |-> 1, err |-> <<>>, state |-> "running"]
         ELSE [evals |-> 1] @@ AssertionFailure(fmt)

AsrtInit ==
    /\ ndebug \in BOOLEAN
    /\ asrtCalls = 0
    /\ asrtEvals = 0
    /\ asrtState = "running"
    /\ asrtErr = <<>>
    /\ asrtEvent = NoAsrtEvent

AsrtIdle ==
    /\ ndebug = FALSE
    /\ asrtCalls = 0
    /\ asrtEvals = 0
    /\ asrtState = "running"
    /\ asrtErr = <<>>
    /\ asrtEvent = NoAsrtEvent

\* The program executes one MINISAT_ASSERT.  An aborted process executes
\* nothing more.
ExecAssert ==
    /\ asrtState = "running"
    /\ asrtCalls < MaxAsserts
    /\ \E c \in CondVals, fmt \in FmtArgs :
          LET r == MINISAT_ASSERT(ndebug, c, fmt)
          IN  /\ asrtCalls' = asrtCalls + 1
              /\ asrtEvals' = asrtEvals + r.evals
              /\ asrtErr' = asrtErr \o r.err
              /\ asrtState' = r.state
              /\ asrtEvent' = [op |-> "assert", c |-> c, fmt |-> fmt,
                               evals |-> asrtEvals, err |-> asrtErr]
    /\ UNCHANGED ndebug
    /\ AsrtOnly

AsrtNext == ExecAssert

\* C7: when NDEBUG is defined, MINISAT_ASSERT(c) never evaluates c and never
\* reaches AssertionFailure/abort, whatever c is; when NDEBUG is not
\* defined, MINISAT_ASSERT(c) has no effect if c is true (c is evaluated
\* once, nothing is written, the process goes on) and, if c is false, calls
\* AssertionFailure, which writes its report and aborts the process: nothing
\* is executed after it.
C7_AssertByBuild ==
    /\ ndebug => ( asrtEvals = 0 /\ asrtState = "running" /\ asrtErr = <<>> )
    /\ ( ~ndebug /\ asrtEvent.op = "assert" ) =>
          /\ asrtEvals = asrtEvent.evals + 1
          /\ asrtEvent.c # 0 => ( asrtState = "running" /\ asrtErr = asrtEvent.err )
          /\ asrtEvent.c = 0 =>
                /\ asrtState = "aborted"
                /\ Len(asrtErr) > Len(asrtEvent.err)
                /\ asrtErr[Len(asrtEvent.err) + 1] = "assertion_failed"
                /\ asrtErr[Len(asrtErr)] = "location"
    /\ asrtState = "aborted" => ~ENABLED AsrtNext

\* C7 witness: without NDEBUG, two assertions held and the third, whose
\* condition is false, ended in abort().
C7_Witness ==
    /\ ~ndebug
    /\ asrtCalls = 3
    /\ asrtEvals = 3
    /\ asrtEvent.op = "assert"
    /\ asrtEvent.c = 0
    /\ asrtEvent.fmt = "fmt"
    /\ asrtState = "aborted"
    /\ asrtErr = <<"assertion_failed", "message", "newline", "location">>

-----------------------------------------------------------------------------
SatIdle ==
    /\ clauses = <<>>
    /\ watches = <<>>
    /\ assigns = <<>>
    /\ vlevel = <<>>
    /\ vreason = <<>>
    /\ trail = <<>>
    /\ trail_lim = <<>>
    /\ qhead = 0
    /\ satPc = "idle"
    /\ model = <<>>
    /\ ok = TRUE
    /\ origs = <<>>
    /\ enqOK = TRUE
    /\ satEvent = [op |-> "none"]

-----------------------------------------------------------------------------
(***************************************************************************)
(* The solver core.  Its code is modelled from the design specification:   *)
(* the data model (section 3), watches and propagation (4.2), the trail    *)
(* (4.3), conflict analysis (4.4), the search driver (4.6), top-level      *)
(* simplify (4.7) and the solver facade (4.9).  Where the specification    *)
(* leaves a detail open the model does what MiniSat does: cancelUntil      *)
(* moves the queue head back to the new end of the trail, a conflict moves *)
(* it to the end of the trail, the second literal of a learnt clause is    *)
(* one of highest level, and the literals of the learnt clause are the     *)
(* false literals met during the analysis.  Restarts, reduceDB, arena GC,  *)
(* the activity heuristic and assumptions are outside the model: a         *)
(* decision picks any unassigned variable with any polarity.               *)
(***************************************************************************)
NVars == 3
MaxClauses == 4
MaxClauseLen == 3
MaxLevels == 2

CRef_Undef == 0
lit_Undef == -1

Vars == 0..(NVars - 1)
Lits == 0..(2 * NVars - 1)

\* A literal is 2*var + sign; the negation flips the low bit.
mkLit(v, sgn) == 2 * v + sgn
var(l) == l \div 2
sign(l) == l % 2
neg(l) == IF l % 2 = 0 THEN l + 1 ELSE l - 1

\* The solver's state as one value, and the step that stores it back.
S ==
    [ clauses |-> clauses, watches |-> watches, assigns |-> assigns,
      vlevel |-> vlevel, vreason |-> vreason, trail |-> trail,
      trail_lim |-> trail_lim, qhead |-> qhead, ok |-> ok ]

SetSolver(s) ==
    /\ clauses' = s.clauses
    /\ watches' = s.watches
    /\ assigns' = s.assigns
    /\ vlevel' = s.vlevel
    /\ vreason' = s.vreason
    /\ trail' = s.trail
    /\ trail_lim' = s.trail_lim
    /\ qhead' = s.qhead
    /\ ok' = s.ok

\* The solver after newVar has been called n times.
EmptySolver(n) ==
    [ clauses |-> <<>>,
      watches |-> [l \in 0..(2 * n - 1) |-> <<>>],
      assigns |-> [v \in 0..(n - 1) |-> "Undef"],
      vlevel |-> [v \in 0..(n - 1) |-> -1],
      vreason |-> [v \in 0..(n - 1) |-> CRef_Undef],
      trail |-> <<>>,
      trail_lim |-> <<>>,
      qhead |-> 0,
      ok |-> TRUE ]

\* value(L): the lbool of a literal under the current assignment.
value(s, l) ==
    LET a == s.assigns[var(l)]
    IN  IF a = "Undef" THEN "Undef"
        ELSE IF (a = "True") = (sign(l) = 0) THEN "True" ELSE "False"

decisionLevel(s) == Len(s.trail_lim)

Swap(c, a, b) == [c EXCEPT ![a] = c[b], ![b] = c[a]]

\* The set of a sequence's elements, and a set of literals in ascending order.
Range(seq) == {seq[i] : i \in 1..Len(seq)}

RECURSIVE SortedSeq(_)
SortedSeq(set) ==
    IF set = {} THEN <<>>
    ELSE LET m == CHOOSE x \in set : \A y \in set : x <= y
         IN  <<m>> \o SortedSeq(set \ {m})

(***************************************************************************)
(* 4.3 Trail and assignment.                                               *)
(***************************************************************************)
enqueue_PushWhenTrue(s, l, from) ==
    [s EXCEPT !.assigns[var(l)] = IF sign(l) = 0 THEN "True" ELSE "False",
              !.vlevel[var(l)] = decisionLevel(s),
              !.vreason[var(l)] = from,
              !.trail = Append(@, l)]

\* enqueue(L, reason), called with value(L) != False: a no-op if L is True;
\* otherwise sets value, level and reason and pushes L on the trail.
enqueue(s, l, from) ==
    IF value(s, l) = "True" THEN s
    ELSE [s EXCEPT !.assigns[var(l)] = IF sign(l) = 0 THEN "True" ELSE "False",
                   !.vlevel[var(l)] = decisionLevel(s),
                   !.vreason[var(l)] = from,
                   !.trail = Append(@, l)]

\* newDecisionLevel(): pushes the current trail length onto trail_lim.
newDecisionLevel(s) == [s EXCEPT !.trail_lim = Append(@, Len(s.trail))]

\* cancelUntil(level): pops the trail back to trail_lim[level], clearing the
\* value of each undone literal (an unassigned variable has level -1 and no
\* reason), and truncates trail_lim to level.
cancelUntil(s, lvl) ==
    IF decisionLevel(s) <= lvl THEN s
    ELSE LET keep   == s.trail_lim[lvl + 1]
             undone == {var(s.trail[i]) : i \in (keep + 1)..Len(s.trail)}
         IN  [s EXCEPT !.assigns = [v \in DOMAIN @ |-> IF v \in undone THEN "Undef" ELSE @[v]],
                       !.vlevel = [v \in DOMAIN @ |-> IF v \in undone THEN -1 ELSE @[v]],
                       !.vreason = [v \in DOMAIN @ |-> IF v \in undone THEN CRef_Undef ELSE @[v]],
                       !.trail = SubSeq(@, 1, keep),
                       !.qhead = keep,
                       !.trail_lim = SubSeq(@, 1, lvl)]

(***************************************************************************)
(* 4.2 Watches and propagation.  watches[p] holds the entries of the       *)
(* clauses in which neg(p) is one of the two watched literals: it is the   *)
(* list scanned when p becomes True.                                       *)
(***************************************************************************)
\* First index k >= from of c whose literal is not False, or 0.
RECURSIVE FindNotFalse(_, _, _)
FindNotFalse(s, c, from) ==
    IF from > Len(c) THEN 0
    ELSE IF value(s, c[from]) # "False" THEN from
    ELSE FindNotFalse(s, c, from + 1)

NewWatch_Third(s, c) == IF Len(c) >= 3 THEN 3 ELSE 0

\* Step 4: search C[2..] for a literal that is not False.
NewWatch(s, c) == FindNotFalse(s, c, 3)

\* The scan of the watch list ws of p from entry i on; kept holds the
\* entries kept so far.  Returns the solver and the conflicting clause.
RECURSIVE ScanWatches(_, _, _, _, _)
ScanWatches(s, p, ws, i, kept) ==
    IF i > Len(ws)
    THEN [s |-> [s EXCEPT !.watches[p] = kept], confl |-> CRef_Undef]
    ELSE
    LET w == ws[i]
    IN  IF value(s, w.blocker) = "True"
        THEN ScanWatches(s, p, ws, i + 1, Append(kept, w))
        ELSE
        LET cr        == w.cref
            c0        == s.clauses[cr].lits
            false_lit == neg(p)
            c         == IF c0[1] = false_lit THEN Swap(c0, 1, 2) ELSE c0
            first     == c[1]
            nw        == [cref |-> cr, blocker |-> first]
            s1        == [s EXCEPT !.clauses[cr].lits = c]
            k         == NewWatch(s, c)
        IN  IF value(s, first) = "True"
            THEN ScanWatches(s1, p, ws, i + 1, Append(kept, nw))
            ELSE IF k # 0
            THEN LET c2 == Swap(c, 2, k)
                     s2 == [s EXCEPT !.clauses[cr].lits = c2,
                                     !.watches[neg(c2[2])] = Append(@, nw)]
                 IN  ScanWatches(s2, p, ws, i + 1, kept)
            ELSE IF value(s, first) = "False"
            THEN [s |-> [s1 EXCEPT !.watches[p] =
                                       Append(kept, nw) \o SubSeq(ws, i + 1, Len(ws)),
                                   !.qhead = Len(s.trail)],
                  confl |-> cr]
            ELSE ScanWatches(enqueue(s1, first, cr), p, ws, i + 1, Append(kept, nw))

\* propagate(): consumes the trail from the queue head on; returns the
\* conflicting clause, or CRef_Undef when the head has caught up.
RECURSIVE propagate(_)
propagate(s) ==
    IF s.qhead >= Len(s.trail) THEN [s |-> s, confl |-> CRef_Undef]
    ELSE LET p == s.trail[s.qhead + 1]
             r == ScanWatches([s EXCEPT !.qhead = @ + 1], p, s.watches[p], 1, <<>>)
         IN  IF r.confl # CRef_Undef THEN r ELSE propagate(r.s)

(***************************************************************************)
(* 4.4 Conflict analysis (first UIP, no minimisation: ccmin-mode 0).       *)
(***************************************************************************)
\* The literals of clause c other than the pivot p: a literal of a level
\* above 0 not yet seen is marked; at the current level it adds to the path
\* count, below it the literal goes to the learnt clause.
RECURSIVE ResolveLits(_, _, _, _, _)
ResolveLits(s, c, j, p, acc) ==
    IF j > Len(c) THEN acc
    ELSE LET q == c[j]
             v == var(q)
         IN  IF q # p /\ v \notin acc.seen /\ s.vlevel[v] > 0
             THEN ResolveLits(s, c, j + 1, p,
                      IF s.vlevel[v] >= decisionLevel(s)
                      THEN [acc EXCEPT !.seen = @ \cup {v}, !.pathC = @ + 1]
                      ELSE [acc EXCEPT !.seen = @ \cup {v}, !.out = Append(@, q)])
             ELSE ResolveLits(s, c, j + 1, p, acc)

\* The next trail literal, from index down, whose variable is seen.
RECURSIVE NextSeen(_, _, _)
NextSeen(s, index, seen) ==
    IF var(s.trail[index]) \in seen THEN index ELSE NextSeen(s, index - 1, seen)

RECURSIVE AnalyzeLoop(_, _, _, _, _)
AnalyzeLoop(s, confl, p, index, acc) ==
    LET a1  == ResolveLits(s, s.clauses[confl].lits, 1, p, acc)
        idx == NextSeen(s, index, a1.seen)
        p1  == s.trail[idx]
        a2  == [a1 EXCEPT !.seen = @ \ {var(p1)}, !.pathC = @ - 1]
    IN  IF a2.pathC > 0
        THEN AnalyzeLoop(s, s.vreason[var(p1)], p1, idx - 1, a2)
        ELSE <<neg(p1)>> \o a2.out

\* analyze(confl): the learnt clause, the negated UIP first and a literal of
\* the highest remaining level second, and the level to backtrack to.
analyze(s, confl) ==
    LET learnt == AnalyzeLoop(s, confl, lit_Undef, Len(s.trail),
                              [seen |-> {}, pathC |-> 0, out |-> <<>>])
        n      == Len(learnt)
        lv(i)  == s.vlevel[var(learnt[i])]
    IN  IF n = 1 THEN [learnt |-> learnt, btlevel |-> 0]
        ELSE LET max_i == CHOOSE i \in 2..n :
                              /\ \A j \in 2..n : lv(j) <= lv(i)
                              /\ \A j \in 2..(i - 1) : lv(j) < lv(i)
             IN  [learnt |-> Swap(learnt, 2, max_i), btlevel |-> lv(max_i)]

(***************************************************************************)
(* 4.9 addClause, 4.7 simplify.                                            *)
(***************************************************************************)
attachClause_WatchLast(s, c, learnt) ==
    LET cr == Len(s.clauses) + 1
    IN  [s EXCEPT !.clauses = Append(@, [lits |-> c, learnt |-> learnt, removed |-> FALSE]),
                  !.watches[neg(c[1])] = Append(@, [cref |-> cr, blocker |-> c[2]]),
                  !.watches[neg(c[Len(c)])] = Append(@, [cref |-> cr, blocker |-> c[1]])]

\* Allocates the clause and attaches its first two literals as watchers.
attachClause(s, c, learnt) ==
    LET cr == Len(s.clauses) + 1
    IN  [s EXCEPT !.clauses = Append(@, [lits |-> c, learnt |-> learnt, removed |-> FALSE]),
                  !.watches[neg(c[1])] = Append(@, [cref |-> cr, blocker |-> c[2]]),
                  !.watches[neg(c[2])] = Append(@, [cref |-> cr, blocker |-> c[1]])]

\* addClause(literals), at decision level 0: removes duplicates and
\* tautologies, drops the literals False at level 0; an empty clause marks
\* the solver unsat, a unit is enqueued, anything longer is stored.
addClause(s, ps) ==
    IF ~s.ok THEN s
    ELSE LET set == Range(ps)
             c   == SortedSeq({l \in set : value(s, l) # "False"})
         IN  IF \E l \in set : neg(l) \in set THEN s
             ELSE IF c = <<>> THEN [s EXCEPT !.ok = FALSE]
             ELSE IF Len(c) = 1 THEN enqueue(s, c[1], CRef_Undef)
             ELSE attachClause(s, c, FALSE)

\* simplify(), at level 0 after a propagate without conflict: removes the
\* satisfied clauses (detaching them; a removed clause is no longer a
\* reason) and strips the False literals from the others.
simplify(s) ==
    LET live(cr) == ~s.clauses[cr].removed
        sat(cr)  == live(cr) /\ \E l \in Range(s.clauses[cr].lits) : value(s, l) = "True"
        strip(c) == SubSeq(c, 1, 2)
                    \o SelectSeq(SubSeq(c, 3, Len(c)), LAMBDA l : value(s, l) # "False")
    IN  [s EXCEPT
           !.clauses = [cr \in 1..Len(s.clauses) |->
                           IF sat(cr) THEN [s.clauses[cr] EXCEPT !.removed = TRUE]
                           ELSE IF live(cr)
                           THEN [s.clauses[cr] EXCEPT !.lits = strip(s.clauses[cr].lits)]
                           ELSE s.clauses[cr]],
           !.watches = [l \in DOMAIN s.watches |->
                           SelectSeq(s.watches[l], LAMBDA w : ~sat(w.cref))],
           !.vreason = [v \in DOMAIN s.vreason |->
                           IF s.vreason[v] # CRef_Undef /\ sat(s.vreason[v])
                           THEN CRef_Undef ELSE s.vreason[v]]]

(***************************************************************************)
(* The solver as a state machine: clauses are added, then solve runs the   *)
(* search loop of 4.6, one iteration per step.                             *)
(***************************************************************************)
\* The clauses given to addClause: every set of 1..MaxClauseLen literals of
\* distinct variables, in ascending order, a clause out of order with a
\* repeated literal, and a tautology.
ClauseInputs ==
    {SortedSeq(X) : X \in {Y \in SUBSET Lits : /\ Cardinality(Y) \in 1..MaxClauseLen
                                              /\ \A l \in Y : neg(l) \notin Y}}
    \cup {<<2, 1, 2>>, <<0, 1, 2>>}

SatInit ==
    /\ clauses = EmptySolver(NVars).clauses
    /\ watches = EmptySolver(NVars).watches
    /\ assigns = EmptySolver(NVars).assigns
    /\ vlevel = EmptySolver(NVars).vlevel
    /\ vreason = EmptySolver(NVars).vreason
    /\ trail = EmptySolver(NVars).trail
    /\ trail_lim = EmptySolver(NVars).trail_lim
    /\ qhead = EmptySolver(NVars).qhead
    /\ ok = EmptySolver(NVars).ok
    /\ satPc = "input"
    /\ model = [v \in Vars |-> "Undef"]
    /\ origs = <<>>
    /\ enqOK = TRUE
    /\ satEvent = [op |-> "none"]

\* A formula is given clause by clause, its clauses in increasing order of
\* their literal sequences.
RECURSIVE ClauseKey(_)
ClauseKey(ps) ==
    IF ps = <<>> THEN 0
    ELSE ClauseKey(SubSeq(ps, 1, Len(ps) - 1)) * (2 * NVars + 1) + ps[Len(ps)] + 1

\* What a step of solve records: the clauses, the assignment and the
\* reasons as propagate left them, and the conflict it returned.
Propagated(op, r) ==
    [ op |-> op, confl |-> r.confl, clauses |-> r.s.clauses,
      assigns |-> r.s.assigns, vreason |-> r.s.vreason ]

AddClause ==
    /\ satPc = "input"
    /\ Len(origs) < MaxClauses
    /\ \E ps \in ClauseInputs :
          /\ origs # <<>> => ClauseKey(origs[Len(origs)]) < ClauseKey(ps)
          /\ SetSolver(addClause(S, ps))
          /\ origs' = Append(origs, ps)
    /\ satEvent' = [op |-> "addClause"]
    /\ UNCHANGED <<satPc, model, enqOK>>
    /\ SatOnly

\* solveLimited: False if the clause set is already unsat or top-level unit
\* propagation finds a conflict; otherwise the search starts.
Solve ==
    /\ satPc = "input"
    /\ LET r == propagate(S)
       IN  IF ~ok THEN SetSolver(S) /\ satPc' = "False" /\ satEvent' = [op |-> "solve_unsat"]
           ELSE /\ satEvent' = Propagated("solve", r)
                /\ IF r.confl # CRef_Undef
                   THEN SetSolver([r.s EXCEPT !.ok = FALSE]) /\ satPc' = "False"
                   ELSE SetSolver(r.s) /\ satPc' = "search"
    /\ UNCHANGED <<model, origs, enqOK>>
    /\ SatOnly

\* A search iteration whose propagate finds a conflict at level 0.
SearchUnsat ==
    /\ satPc = "search"
    /\ LET r == propagate(S)
       IN  /\ r.confl # CRef_Undef
           /\ decisionLevel(r.s) = 0
           /\ SetSolver([r.s EXCEPT !.ok = FALSE])
           /\ satEvent' = Propagated("search_False", r)
    /\ satPc' = "False"
    /\ UNCHANGED <<model, origs, enqOK>>
    /\ SatOnly

\* A search iteration whose propagate finds a conflict above level 0: the
\* conflict is analysed, the solver backtracks, and the learnt clause is
\* enqueued (a unit) or stored, attached and made the reason of its first
\* literal.
SearchLearn ==
    /\ satPc = "search"
    /\ LET r == propagate(S)
       IN  /\ r.confl # CRef_Undef
           /\ decisionLevel(r.s) > 0
           /\ LET a  == analyze(r.s, r.confl)
                  s1 == cancelUntil(r.s, a.btlevel)
                  s2 == attachClause(s1, a.learnt, TRUE)
              IN  IF Len(a.learnt) = 1
                  THEN SetSolver(enqueue(s1, a.learnt[1], CRef_Undef))
                  ELSE SetSolver(enqueue(s2, a.learnt[1], Len(s2.clauses)))
           /\ satEvent' = Propagated("search_conflict", r)
    /\ UNCHANGED <<satPc, model, origs, enqOK>>
    /\ SatOnly

\* The solver after the conflict-free part of an iteration: propagate, and
\* simplify at level 0.
AfterPropagate(r) == IF decisionLevel(r.s) = 0 THEN simplify(r.s) ELSE r.s

\* A search iteration without conflict that picks a decision literal.
SearchDecide ==
    /\ satPc = "search"
    /\ LET r == propagate(S)
       IN  /\ r.confl = CRef_Undef
           /\ \E v \in DOMAIN assigns, sgn \in {0, 1} :
                 /\ r.s.assigns[v] = "Undef"
                 /\ SetSolver(enqueue(newDecisionLevel(AfterPropagate(r)),
                                      mkLit(v, sgn), CRef_Undef))
           /\ satEvent' = Propagated("search_decide", r)
    /\ UNCHANGED <<satPc, model, origs, enqOK>>
    /\ SatOnly

\* A search iteration without conflict and with every variable assigned:
\* search returns True, the model is the current assignment, and the solver
\* backtracks to level 0.
SearchModel ==
    /\ satPc = "search"
    /\ LET r == propagate(S)
       IN  /\ r.confl = CRef_Undef
           /\ \A v \in DOMAIN assigns : r.s.assigns[v] # "Undef"
           /\ model' = r.s.assigns
           /\ SetSolver(cancelUntil(AfterPropagate(r), 0))
           /\ satEvent' = Propagated("search_True", r)
    /\ satPc' = "True"
    /\ UNCHANGED <<origs, enqOK>>
    /\ SatOnly

SolveNext ==
    \/ AddClause
    \/ Solve
    \/ SearchUnsat
    \/ SearchLearn
    \/ SearchDecide
    \/ SearchModel

(***************************************************************************)
(* The trail operations called in any order on a solver that holds a       *)
(* formula.                                                                *)
(***************************************************************************)
\* A formula with its number of variables:  p cnf 3 1 / -1 2 3 0.
TrailFormulas ==
    { [nVars |-> 3, clauses |-> << <<1, 2, 4>> >>] }

RECURSIVE LoadFormula(_, _)
LoadFormula(s, f) ==
    IF f = <<>> THEN s ELSE LoadFormula(addClause(s, Head(f)), Tail(f))

TrailInit ==
    \E f \in TrailFormulas :
        LET s == LoadFormula(EmptySolver(f.nVars), f.clauses)
        IN  /\ clauses = s.clauses
            /\ watches = s.watches
            /\ assigns = s.assigns
            /\ vlevel = s.vlevel
            /\ vreason = s.vreason
            /\ trail = s.trail
            /\ trail_lim = s.trail_lim
            /\ qhead = s.qhead
            /\ ok = s.ok
            /\ satPc = "trail"
            /\ model = [v \in DOMAIN s.assigns |-> "Undef"]
            /\ origs = f.clauses
            /\ enqOK = TRUE
            /\ satEvent = [op |-> "none"]

\* Clause cr is unit on l: l is in it and every other literal is False.
UnitOn(s, cr, l) ==
    /\ l \in Range(s.clauses[cr].lits)
    /\ \A q \in Range(s.clauses[cr].lits) \ {l} : value(s, q) = "False"

CallEnqueue ==
    /\ \E l \in DOMAIN watches, from \in 0..Len(clauses) :
          /\ value(S, l) # "False"
          /\ SetSolver(enqueue(S, l, from))
          /\ enqOK' = ( enqOK /\ ( \/ value(S, l) = "True"
                                   \/ from = CRef_Undef
                                   \/ UnitOn(S, from, l) ) )
    /\ UNCHANGED <<satEvent, satPc, model, origs>>
    /\ SatOnly

CallNewDecisionLevel ==
    /\ decisionLevel(S) < MaxLevels
    /\ SetSolver(newDecisionLevel(S))
    /\ UNCHANGED <<satEvent, satPc, model, origs, enqOK>>
    /\ SatOnly

CallPropagate ==
    /\ SetSolver(propagate(S).s)
    /\ UNCHANGED <<satEvent, satPc, model, origs, enqOK>>
    /\ SatOnly

CallCancelUntil ==
    /\ \E lvl \in 0..decisionLevel(S) : SetSolver(cancelUntil(S, lvl))
    /\ UNCHANGED <<satEvent, satPc, model, origs, enqOK>>
    /\ SatOnly

TrailNext ==
    \/ CallEnqueue
    \/ CallNewDecisionLevel
    \/ CallPropagate
    \/ CallCancelUntil

(***************************************************************************)
(* Properties of the solver core.                                          *)
(***************************************************************************)
\* Literal l is True under the total or partial assignment m.
TrueIn(m, l) == m[var(l)] = (IF sign(l) = 0 THEN "True" ELSE "False")

\* C9: soundness of SAT answers: for every CNF formula over the bounded set
\* of variables, if solve returns True then every original clause has at
\* least one literal that is True under the extracted model.
C9_SatModelSatisfiesOriginals ==
    satPc = "True" =>
        \A i \in 1..Len(origs) : \E l \in Range(origs[i]) : TrueIn(model, l)

\* C9 witness: solve has returned True on a formula of three clauses after
\* a conflict from which it learnt and stored a clause.
C9_Witness ==
    /\ satPc = "True"
    /\ Len(origs) = 3
    /\ \E cr \in 1..Len(clauses) : clauses[cr].learnt
    /\ \A i \in 1..Len(origs) : \E l \in Range(origs[i]) : TrueIn(model, l)

\* A step of solve has run propagate, and satEvent holds what it left.
HasPropagated ==
    satEvent.op \in {"solve", "search_False", "search_conflict", "search_decide", "search_True"}

\* The lbool of literal l under assignment a.
ValueIn(a, l) ==
    IF a[var(l)] = "Undef" THEN "Undef" ELSE IF TrueIn(a, l) THEN "True" ELSE "False"

\* The attached clauses of length >= 2 that propagate left.
AttachedAfter ==
    {cr \in 1..Len(satEvent.clauses) :
        ~satEvent.clauses[cr].removed /\ Len(satEvent.clauses[cr].lits) >= 2}

\* Clause cr is the reason of a literal it made True.
EnqueuedUnit(cr) ==
    \E l \in Range(satEvent.clauses[cr].lits) :
        TrueIn(satEvent.assigns, l) /\ satEvent.vreason[var(l)] = cr

FalseWatch(cr, i) == ValueIn(satEvent.assigns, satEvent.clauses[cr].lits[i]) = "False"

Satisfied(cr) ==
    \E l \in Range(satEvent.clauses[cr].lits) : TrueIn(satEvent.assigns, l)

\* C11 as stated: watcher integrity: after every call of propagate, for every
\* attached clause of length >= 2 both watched literals (positions 0 and 1)
\* are not False, unless the clause is the conflict just returned or a clause
\* that enqueued a unit.
C11_WatchersNotFalse ==
    HasPropagated =>
        \A cr \in AttachedAfter :
            \/ ~FalseWatch(cr, 1) /\ ~FalseWatch(cr, 2)
            \/ cr = satEvent.confl
            \/ EnqueuedUnit(cr)

\* C11 amended: after every call of propagate made by solve that returns no
\* conflict, an attached clause of length >= 2 has a False watched literal
\* only if one of its literals is True.
C11_FalseWatchOnlyIfSatisfied ==
    ( HasPropagated /\ satEvent.confl = CRef_Undef ) =>
        \A cr \in AttachedAfter :
            ( FalseWatch(cr, 1) \/ FalseWatch(cr, 2) ) => Satisfied(cr)

\* C11 witness: a search iteration's propagate returned no conflict and left
\* a clause with a False watched literal that is satisfied by a literal it
\* did not enqueue.
C11_Witness ==
    /\ satEvent.op = "search_decide"
    /\ satEvent.confl = CRef_Undef
    /\ \E cr \in AttachedAfter :
          /\ FalseWatch(cr, 1) \/ FalseWatch(cr, 2)
          /\ Satisfied(cr)
          /\ ~EnqueuedUnit(cr)

NoVarTwice ==
    \A i, j \in 1..Len(trail) : i # j => var(trail[i]) # var(trail[j])

TrailLitsTrue ==
    \A i \in 1..Len(trail) : value(S, trail[i]) = "True"

ReasonsPropagate ==
    \A v \in DOMAIN assigns :
        assigns[v] # "Undef" =>
            \/ vreason[v] = CRef_Undef
            \/ UnitOn(S, vreason[v], mkLit(v, IF assigns[v] = "True" THEN 0 ELSE 1))

\* C10 as stated: trail integrity: in every state reachable by any sequence
\* of enqueue, newDecisionLevel, propagate and cancelUntil, no variable
\* appears twice on the trail, every literal on the trail has value True,
\* and the reason of every assigned literal is either CRef_Undef or a clause
\* in which that literal is the only non-False literal.
C10_TrailIntegrity ==
    /\ NoVarTwice
    /\ TrailLitsTrue
    /\ ReasonsPropagate

\* C10 amended: the same, in every state reachable by such a sequence in
\* which every enqueue(L, reason) is called with a reason that is CRef_Undef
\* or a clause in which L is the only non-False literal; without that, the
\* first two parts still hold.
C10_TrailIntegrityGivenReasons ==
    /\ NoVarTwice
    /\ TrailLitsTrue
    /\ enqOK => ReasonsPropagate

\* C10 witness: all enqueue calls were given proper reasons; above level 0
\* the trail holds every variable, one with a clause as reason, and
\* propagate has consumed it.
C10_Witness ==
    /\ satPc = "trail"
    /\ enqOK
    /\ Len(trail) = 3
    /\ qhead = 3
    /\ Len(trail_lim) >= 1
    /\ \E v \in DOMAIN assigns : assigns[v] # "Undef" /\ vreason[v] # CRef_Undef
    /\ ReasonsPropagate

-----------------------------------------------------------------------------
(***************************************************************************)
(* Specifications.                                                         *)
(***************************************************************************)

\* The option parser: static constructors, then parseOptions.
InitOpt == OptInit /\ VecIdle /\ AsrtIdle /\ SatIdle
SpecOpt == InitOpt /\ [][OptNext]_vars

\* One call of BoolOption::parse.
InitBool == BoolInit /\ VecIdle /\ AsrtIdle /\ SatIdle
SpecBool == InitBool /\ [][BoolNext]_vars

\* Calls on one vec, from the empty vector.
InitVec == OptIdle /\ VecInit /\ AsrtIdle /\ SatIdle
SpecVec == InitVec /\ [][VecNext]_vars

\* push(void) only, from the empty vector.
SpecPush == InitVec /\ [][PushNext]_vars

\* Two vectors: every call on vec, copyTo and moveTo between vec and dest.
SpecPair == InitVec /\ [][PairNext]_vars

\* A program executing assertions, in a build with or without NDEBUG.
InitAssert == OptIdle /\ VecIdle /\ AsrtInit /\ SatIdle
SpecAssert == InitAssert /\ [][AsrtNext]_vars

\* addClause, then solve.
InitSolve == OptIdle /\ VecIdle /\ AsrtIdle /\ SatInit
SpecSolve == InitSolve /\ [][SolveNext]_vars

\* The trail operations in any order.
InitTrail == OptIdle /\ VecIdle /\ AsrtIdle /\ TrailInit
SpecTrail == InitTrail /\ [][TrailNext]_vars

====
